---- MODULE Spec2Model ----
(***************************************************************************)
(* copoll: a thin wrapper over Linux epoll (src/src/lib.rs).               *)
(*                                                                         *)
(* The wrapper keeps no state of its own beyond the epoll descriptor: the  *)
(* watch set lives in the kernel.  The model therefore carries the kernel  *)
(* side of the one epoll instance (its interest list and ready list) as    *)
(* state, the readiness condition of the watched descriptors as the        *)
(* environment, and the caller's Events vector that poll fills.            *)
(*                                                                         *)
(* Descriptors of the model are open, pollable descriptors owned by the    *)
(* caller for the whole life of the instance.                              *)
(***************************************************************************)
EXTENDS Integers, Sequences, FiniteSets, TLC

\* ---------------------------------------------------------------- bounds
NumFds == 1          \* descriptors the caller owns
MaxToken == 1        \* largest Token value (stands for usize::MAX)
MaxBuf == 1          \* longest Events vector the caller hands to poll
MaxHalfMillis == 2   \* longest Duration passed to poll, in half milliseconds
MaxConds == 1        \* most readiness conditions up at once, over all descriptors

\* ------------------------------------------------------------- constants
NanosPerMilli == 1000000

Fds == 1..NumFds
Tokens == 0..MaxToken
Interest == {"Readable", "Writable", "Both"}
Mode == {"Level", "Edge", "OneShot"}

\* Option<Duration>; a Duration is a number of nanoseconds
None == [some |-> FALSE, d |-> 0]
Some(d) == [some |-> TRUE, d |-> d]
Durations == {k * (NanosPerMilli \div 2) : k \in 0..MaxHalfMillis}
Timeouts == {None} \cup {Some(d) : d \in Durations}

\* epoll::EpollFlags, a bit set
EPOLLIN == "EPOLLIN"
EPOLLOUT == "EPOLLOUT"
EPOLLERR == "EPOLLERR"
EPOLLHUP == "EPOLLHUP"
EPOLLET == "EPOLLET"
EPOLLONESHOT == "EPOLLONESHOT"
CondBits == {EPOLLIN, EPOLLOUT, EPOLLERR, EPOLLHUP}
\* the conditions that come and go on a descriptor while it is open at both
\* ends; a hangup (EPOLLHUP) is final and is decoded in SpecDecode
ActivityBits == {EPOLLIN, EPOLLOUT, EPOLLERR}
EP_PRIVATE_BITS == {EPOLLET, EPOLLONESHOT}

\* make_flags with the bits of Edge and OneShot exchanged
make_flags_ModesSwapped(interest, mode) ==
    LET flags0 == {}
        flags1 == CASE interest = "Readable" -> flags0 \cup {EPOLLIN}
                    [] interest = "Writable" -> flags0 \cup {EPOLLOUT}
                    [] interest = "Both" -> (flags0 \cup {EPOLLIN}) \cup {EPOLLOUT}
        flags2 == CASE mode = "Level" -> flags1
                    [] mode = "Edge" -> flags1 \cup {EPOLLONESHOT}
                    [] mode = "OneShot" -> flags1 \cup {EPOLLET}
    IN  flags2

\* ------------------------------------------------------- Flag Translator
\* make_flags whose Both arm sets EPOLLIN only
make_flags_BothIn(interest, mode) ==
    LET flags1 == CASE interest = "Readable" -> {EPOLLIN}
                    [] interest = "Writable" -> {EPOLLOUT}
                    [] interest = "Both" -> {EPOLLIN}
    IN  CASE mode = "Level" -> flags1
          [] mode = "Edge" -> flags1 \cup {EPOLLET}
          [] mode = "OneShot" -> flags1 \cup {EPOLLONESHOT}

make_flags(interest, mode) ==
    LET flags0 == {}
        flags1 == CASE interest = "Readable" -> flags0 \cup {EPOLLIN}
                    [] interest = "Writable" -> flags0 \cup {EPOLLOUT}
                    [] interest = "Both" -> (flags0 \cup {EPOLLIN}) \cup {EPOLLOUT}
        flags2 == CASE mode = "Level" -> flags1
                    [] mode = "Edge" -> flags1 \cup {EPOLLET}
                    [] mode = "OneShot" -> flags1 \cup {EPOLLONESHOT}
    IN  flags2

\* flags_to_readiness reading a hangup as an error too
flags_to_readiness_HupIsError(flags) ==
    [readable |-> EPOLLIN \in flags,
     writable |-> EPOLLOUT \in flags,
     error |-> EPOLLERR \in flags \/ EPOLLHUP \in flags]

flags_to_readiness(flags) ==
    [readable |-> EPOLLIN \in flags,
     writable |-> EPOLLOUT \in flags,
     error |-> EPOLLERR \in flags]

\* ---------------------------------------------------------------- Token
\* `usize::from(token) as u64`: zero extension
usize_as_u64(t) == t

\* `event.data() as usize`: truncation to the width of usize
u64_as_usize(d) == d % (MaxToken + 1)

\* epoll::EpollEvent::new(flags, data)
EpollEvent(flags, data) == [events |-> flags, data |-> data]

\* event::token
token(event) == u64_as_usize(event.data)

\* event::readiness
readiness(event) == flags_to_readiness(event.events)

\* --------------------------------------------------------------- results
\* io::Error::from_raw_os_error(errno).kind()
ErrorKind(errno) ==
    CASE errno = "EEXIST" -> "AlreadyExists"
      [] errno = "ENOENT" -> "NotFound"
      [] errno = "EINVAL" -> "InvalidInput"
      [] errno = "EINTR" -> "Interrupted"
      [] errno = "ENOMEM" -> "OutOfMemory"

Ok == [ok |-> TRUE, errno |-> "none", kind |-> "none"]
Err(errno) == [ok |-> FALSE, errno |-> errno, kind |-> ErrorKind(errno)]

VARIABLES
    watch,    \* kernel: the interest list of the epoll instance, a set of items
    cond,     \* environment: the readiness condition of each descriptor
    events,   \* caller: the Events vector as the most recent poll left it
    last,     \* the most recent call and its result (NoCall after a step of the environment)
    epoll     \* the Epoll value: whether it is live (not dropped yet), whether a
              \* call holds its `&mut self` borrow, and how many times its
              \* epoll_fd has been closed

vars == <<watch, cond, events, last, epoll>>

\* ------------------------------------------------------ kernel: epoll(7)
Items(w, fd) == {i \in w : i.fd = fd}
Registered(w, fd) == Items(w, fd) # {}

Armed(item) == item.events \ EP_PRIVATE_BITS # {}

\* the events an item would report now (EPOLLERR and EPOLLHUP are always watched)
Revents(item, c) ==
    IF Armed(item) THEN c[item.fd] \cap (item.events \cup {EPOLLERR, EPOLLHUP}) ELSE {}

NewItem(fd, event, c) ==
    LET item == [fd |-> fd, data |-> event.data, events |-> event.events, ready |-> FALSE]
    IN  [item EXCEPT !.ready = Revents(item, c) # {}]

\* epoll_ctl(2): the set of possible outcomes [res, watch]
epoll_ctl(w, c, op, fd, event) ==
    CASE op = "EpollCtlAdd" ->
            IF Registered(w, fd)
            THEN {[res |-> Err("EEXIST"), watch |-> w]}
            ELSE {[res |-> Ok, watch |-> w \cup {NewItem(fd, event, c)}],
                  [res |-> Err("ENOMEM"), watch |-> w]}
      [] op = "EpollCtlMod" ->
            IF ~Registered(w, fd)
            THEN {[res |-> Err("ENOENT"), watch |-> w]}
            ELSE {[res |-> Ok,
                   watch |-> (w \ Items(w, fd)) \cup {NewItem(fd, event, c)}]}
      [] op = "EpollCtlDel" ->
            IF ~Registered(w, fd)
            THEN {[res |-> Err("ENOENT"), watch |-> w]}
            ELSE {[res |-> Ok, watch |-> w \ Items(w, fd)]}

Min(a, b) == IF a < b THEN a ELSE b

\* what one wait leaves of an item: delivered items are disarmed (one-shot),
\* taken off the ready list (edge) or kept on it (level); items found idle
\* leave the ready list
AfterWait(item, delivered, c) ==
    IF item \in delivered
    THEN IF EPOLLONESHOT \in item.events
         THEN [item EXCEPT !.events = @ \cap EP_PRIVATE_BITS, !.ready = FALSE]
         ELSE IF EPOLLET \in item.events
              THEN [item EXCEPT !.ready = FALSE]
              ELSE item
    ELSE IF item.ready /\ Revents(item, c) = {}
         THEN [item EXCEPT !.ready = FALSE]
         ELSE item

\* epoll_wait(2): the set of possible outcomes [res, n, out, watch]; out is
\* what the kernel wrote to the caller's slice, n the count it returns
epoll_wait(w, c, maxevents, timeout_ms, sig) ==
    IF maxevents <= 0
    THEN {[res |-> Err("EINVAL"), n |-> 0, out |-> <<>>, watch |-> w]}
    ELSE LET R == {i \in w : i.ready /\ Revents(i, c) # {}}
             k == Min(maxevents, Cardinality(R))
             orders == {s \in [1..k -> R] : \A a, b \in 1..k : s[a] = s[b] => a = b}
         IN  IF R # {}
             THEN {[res |-> Ok, n |-> k,
                    out |-> [j \in 1..k |-> EpollEvent(Revents(s[j], c), s[j].data)],
                    watch |-> {AfterWait(i, {s[j] : j \in 1..k}, c) : i \in w}]
                       : s \in orders}
             ELSE {[res |-> Ok, n |-> 0, out |-> <<>>,
                    watch |-> {AfterWait(i, {}, c) : i \in w}] : x \in {1} \cap
                        (IF timeout_ms >= 0 THEN {1} ELSE {})}
                  \cup
                  {[res |-> Err("EINTR"), n |-> 0, out |-> <<>>,
                    watch |-> {AfterWait(i, {}, c) : i \in w}] : x \in {1} \cap
                        (IF sig /\ timeout_ms # 0 THEN {1} ELSE {})}

\* ----------------------------------------------------------------- steps
\* the arguments of a register or reregister
Args(tok, interest, mode) == [token |-> tok, interest |-> interest, mode |-> mode]
NoArgs == [token |-> 0, interest |-> "none", mode |-> "none"]

\* last: the call (op, fd), whether fd was registered when it was made (had;
\* for a drop, whether any descriptor was; for a poll, whether the vector
\* passed held events),
\* its result (res) and, for a register or reregister that succeeded, the
\* registration it asked for (asked); for a use of the event module, what the
\* descriptor reported and what the caller decoded from the event (decoded)
NoDecoded == [reported |-> {}, token |-> 0, readiness |-> flags_to_readiness({})]
NoCall ==
    [op |-> "none", fd |-> 0, had |-> FALSE, asked |-> NoArgs, res |-> Ok,
     decoded |-> NoDecoded]

\* a method taking `&mut self` can be called: the value has not been dropped
\* and no other call holds the exclusive borrow
Callable == epoll.live /\ ~epoll.borrowed

Init ==
    /\ watch = {}
    /\ cond = [fd \in Fds |-> {}]
    /\ events = <<>>
    /\ last = NoCall
    /\ epoll = [live |-> TRUE, borrowed |-> FALSE, closes |-> 0]

\* register that falls back to EpollCtlMod when the descriptor is present
Register_Upsert(fd, tok, interest, mode) ==
    LET event == EpollEvent(make_flags(interest, mode), usize_as_u64(tok))
    IN  \E o1 \in epoll_ctl(watch, cond, "EpollCtlAdd", fd, event) :
        \E o2 \in IF o1.res.errno = "EEXIST"
                   THEN epoll_ctl(watch, cond, "EpollCtlMod", fd, event)
                   ELSE {o1} :
            /\ Callable
            /\ watch' = o2.watch
            /\ last' = [NoCall EXCEPT !.op = "register", !.fd = fd,
                            !.had = Registered(watch, fd), !.res = o2.res,
                            !.asked = IF o2.res.ok THEN Args(tok, interest, mode)
                                      ELSE NoArgs]
            /\ UNCHANGED <<cond, events, epoll>>

\* Epoll::register
Register(fd, tok, interest, mode) ==
    LET event == EpollEvent(make_flags(interest, mode), usize_as_u64(tok))
    IN  \E o \in epoll_ctl(watch, cond, "EpollCtlAdd", fd, event) :
            /\ Callable
            /\ watch' = o.watch
            /\ last' = [NoCall EXCEPT !.op = "register", !.fd = fd,
                            !.had = Registered(watch, fd), !.res = o.res,
                            !.asked = IF o.res.ok THEN Args(tok, interest, mode)
                                      ELSE NoArgs]
            /\ UNCHANGED <<cond, events, epoll>>

\* reregister issuing EpollCtlAdd, as register does
Reregister_CtlAdd(fd, tok, interest, mode) ==
    LET event == EpollEvent(make_flags(interest, mode), usize_as_u64(tok))
    IN  \E o \in epoll_ctl(watch, cond, "EpollCtlAdd", fd, event) :
            /\ Callable
            /\ watch' = o.watch
            /\ last' = [NoCall EXCEPT !.op = "reregister", !.fd = fd,
                            !.had = Registered(watch, fd), !.res = o.res,
                            !.asked = IF o.res.ok THEN Args(tok, interest, mode)
                                      ELSE NoArgs]
            /\ UNCHANGED <<cond, events, epoll>>

\* reregister done as a removal followed by a fresh registration
Reregister_DelThenAdd(fd, tok, interest, mode) ==
    LET event == EpollEvent(make_flags(interest, mode), usize_as_u64(tok))
    IN  \E o1 \in epoll_ctl(watch, cond, "EpollCtlDel", fd, event) :
        \E o2 \in IF o1.res.ok
                   THEN epoll_ctl(o1.watch, cond, "EpollCtlAdd", fd, event)
                   ELSE {o1} :
            /\ Callable
            /\ watch' = o2.watch
            /\ last' = [NoCall EXCEPT !.op = "reregister", !.fd = fd,
                            !.had = Registered(watch, fd), !.res = o2.res,
                            !.asked = IF o2.res.ok THEN Args(tok, interest, mode)
                                      ELSE NoArgs]
            /\ UNCHANGED <<cond, events, epoll>>

\* Epoll::reregister
Reregister(fd, tok, interest, mode) ==
    LET event == EpollEvent(make_flags(interest, mode), usize_as_u64(tok))
    IN  \E o \in epoll_ctl(watch, cond, "EpollCtlMod", fd, event) :
            /\ Callable
            /\ watch' = o.watch
            /\ last' = [NoCall EXCEPT !.op = "reregister", !.fd = fd,
                            !.had = Registered(watch, fd), !.res = o.res,
                            !.asked = IF o.res.ok THEN Args(tok, interest, mode)
                                      ELSE NoArgs]
            /\ UNCHANGED <<cond, events, epoll>>

\* unregister that empties the event mask of the item (EpollCtlMod) and leaves
\* it on the interest list
Unregister_Disarm(fd) ==
    \E o \in epoll_ctl(watch, cond, "EpollCtlMod", fd, EpollEvent({}, 0)) :
        /\ Callable
        /\ watch' = o.watch
        /\ last' = [NoCall EXCEPT !.op = "unregister", !.fd = fd,
                        !.had = Registered(watch, fd), !.res = o.res]
        /\ UNCHANGED <<cond, events, epoll>>

\* Epoll::unregister
Unregister(fd) ==
    \E o \in epoll_ctl(watch, cond, "EpollCtlDel", fd, EpollEvent({}, 0)) :
        /\ Callable
        /\ watch' = o.watch
        /\ last' = [NoCall EXCEPT !.op = "unregister", !.fd = fd,
                        !.had = Registered(watch, fd), !.res = o.res]
        /\ UNCHANGED <<cond, events, epoll>>

\* Drop for Epoll that leaves epoll_fd open
Drop_NoClose ==
    /\ Callable
    /\ epoll' = [epoll EXCEPT !.live = FALSE]
    /\ last' = [NoCall EXCEPT !.op = "drop", !.had = watch # {}]
    /\ UNCHANGED <<watch, cond, events>>

\* Drop for Epoll: the value goes out of scope and its epoll_fd is closed, the
\* result of close ignored; the kernel frees the instance with its interest list
Drop ==
    /\ Callable
    /\ epoll' = [epoll EXCEPT !.live = FALSE, !.closes = @ + 1]
    /\ watch' = {}
    /\ last' = [NoCall EXCEPT !.op = "drop", !.had = watch # {}]
    /\ UNCHANGED <<cond, events>>

\* Duration::as_millis
as_millis(d) == d \div NanosPerMilli

\* `timeout.map(|d| d.as_millis() as isize).unwrap_or(-1)`
timeout_ms(timeout) == IF timeout.some THEN as_millis(timeout.d) ELSE -1

\* the Events vectors a caller hands to poll: whatever an earlier use left
Vectors == UNION {[1..n -> {EpollEvent({EPOLLIN}, 0)}] : n \in 0..MaxBuf}

\* Vec::clear
clear(vec) == SubSeq(vec, 1, 0)

\* Epoll::poll without the events.clear() before the wait
Poll_NoClear(vec, timeout, sig) ==
    LET ms == timeout_ms(timeout)
    IN  \E o \in epoll_wait(watch, cond, Len(vec), ms, sig) :
            /\ epoll.live
            /\ watch' = o.watch
            /\ events' = IF o.res.ok THEN SubSeq(o.out \o vec, 1, o.n) ELSE vec
            /\ last' = [NoCall EXCEPT !.op = "poll", !.had = vec # <<>>, !.res = o.res]
            /\ epoll' = [epoll EXCEPT !.borrowed = FALSE]
            /\ UNCHANGED cond

\* Epoll::poll; vec: the vector passed as `events`; sig: a signal reaches the
\* calling thread during the call. The step is the whole call, or the rest of
\* a call that PollEnter began; its return ends the `&mut self` borrow
Poll(vec, timeout, sig) ==
    LET ms == timeout_ms(timeout)
        cleared == clear(vec)
    IN  \E o \in epoll_wait(watch, cond, Len(cleared), ms, sig) :
            /\ epoll.live
            /\ watch' = o.watch
            /\ events' = IF o.res.ok THEN SubSeq(o.out \o cleared, 1, o.n) ELSE cleared
            /\ last' = [NoCall EXCEPT !.op = "poll", !.had = vec # <<>>, !.res = o.res]
            /\ epoll' = [epoll EXCEPT !.borrowed = FALSE]
            /\ UNCHANGED cond

\* the number of conditions up across all descriptors
RECURSIVE RaisedUpTo(_, _)
RaisedUpTo(c, n) == IF n = 0 THEN 0 ELSE Cardinality(c[n]) + RaisedUpTo(c, n - 1)
Raised(c) == RaisedUpTo(c, NumFds)

\* I/O activity on a descriptor raises condition b; the kernel's wakeup
\* callback puts an armed item watching b on the ready list
IOActivity(fd, b) ==
    /\ b \in cond[fd] \/ Raised(cond) < MaxConds
    /\ cond' = [cond EXCEPT ![fd] = @ \cup {b}]
    /\ watch' = {IF i.fd = fd /\ Armed(i) /\ b \in i.events \cup {EPOLLERR, EPOLLHUP}
                 THEN [i EXCEPT !.ready = TRUE] ELSE i : i \in watch}
    /\ last' = NoCall
    /\ UNCHANGED <<events, epoll>>

\* the caller drains the descriptor (or clears its error): condition b ends.
\* An item left with nothing to report no longer counts as ready: the next
\* wait would find it idle and drop it from the ready list unreported
Drain(fd, b) ==
    /\ b \in cond[fd]
    /\ cond' = [cond EXCEPT ![fd] = @ \ {b}]
    /\ watch' = {[i EXCEPT !.ready = @ /\ Revents(i, cond') # {}] : i \in watch}
    /\ last' = NoCall
    /\ UNCHANGED <<events, epoll>>

Next ==
    \/ \E fd \in Fds, tok \in Tokens, interest \in Interest, mode \in Mode :
           Register(fd, tok, interest, mode)
    \/ \E fd \in Fds, tok \in Tokens, interest \in Interest, mode \in Mode :
           Reregister(fd, tok, interest, mode)
    \/ \E fd \in Fds : Unregister(fd)
    \/ \E vec \in Vectors, timeout \in Timeouts, sig \in BOOLEAN : Poll(vec, timeout, sig)
    \/ \E fd \in Fds, b \in ActivityBits : IOActivity(fd, b)
    \/ \E fd \in Fds, b \in ActivityBits : Drain(fd, b)
    \/ Drop

Spec == Init /\ [][Next]_vars

\* ----------------------------------------------------------- two threads
\* a thread enters poll: the call holds the exclusive borrow of the Epoll
\* value (`&mut self`) until it returns
PollEnter ==
    /\ Callable
    /\ epoll' = [epoll EXCEPT !.borrowed = TRUE]
    /\ last' = NoCall
    /\ UNCHANGED <<watch, cond, events>>

\* one thread polls while another registers, reregisters and unregisters on
\* the same Epoll value
NextThreads ==
    \/ PollEnter
    \/ Next

SpecThreads == Init /\ [][NextThreads]_vars

\* ------------------------------------------------------ the event module
\* the caller applies event::token and event::readiness to the event that an
\* epoll_wait writes for a descriptor registered with (tok, interest, mode)
\* whose conditions are c
Decode(fd, tok, interest, mode, c) ==
    LET conds == [f \in Fds |-> c]
        item == NewItem(fd, EpollEvent(make_flags(interest, mode), usize_as_u64(tok)), conds)
        event == EpollEvent(Revents(item, conds), item.data)
    IN  /\ Revents(item, conds) # {}
        /\ last' = [NoCall EXCEPT !.op = "decode", !.fd = fd,
                                  !.asked = Args(tok, interest, mode),
                                  !.decoded = [reported |-> c,
                                               token |-> token(event),
                                               readiness |-> readiness(event)]]
        /\ UNCHANGED <<watch, cond, events, epoll>>

NextDecode ==
    \E fd \in Fds, tok \in Tokens, interest \in Interest, mode \in Mode, c \in SUBSET CondBits :
        Decode(fd, tok, interest, mode, c)

SpecDecode == Init /\ [][NextDecode]_vars

\* ================================================================ claims
\* the registration of an item as the caller stated it
Reg(item) ==
    [fd |-> item.fd,
     token |-> u64_as_usize(item.data),
     readable |-> EPOLLIN \in item.events,
     writable |-> EPOLLOUT \in item.events,
     edge |-> EPOLLET \in item.events,
     oneshot |-> EPOLLONESHOT \in item.events,
     armed |-> Armed(item)]

\* the registration that register or reregister with these arguments asks for
Wanted(fd, args) ==
    [fd |-> fd,
     token |-> args.token,
     readable |-> args.interest \in {"Readable", "Both"},
     writable |-> args.interest \in {"Writable", "Both"},
     edge |-> args.mode = "Edge",
     oneshot |-> args.mode = "OneShot",
     armed |-> TRUE]

\* no descriptor would report anything now
NoneReady == \A i \in watch : Revents(i, cond) = {}

\* the item is due a notification: armed, on the ready list, condition up
Due(item) == item.ready /\ Revents(item, cond) # {}

\* the events of a vector that carry the item's token
EventsFor(evs, item) == {j \in 1..Len(evs) : token(evs[j]) = u64_as_usize(item.data)}

\* C1: a descriptor is in the watch set at most once, and register on a
\* descriptor that is registered fails with AlreadyExists (EEXIST)
C1_RegisteredAtMostOnce ==
    /\ \A a, b \in watch : a.fd = b.fd => a = b
    /\ (last.op = "register" /\ last.had) =>
           (~last.res.ok /\ last.res.kind = "AlreadyExists")

C1_Witness ==
    /\ last.op = "register" /\ last.had /\ last.res.kind = "AlreadyExists"
    /\ Cardinality(Items(watch, last.fd)) = 1

\* C2: reregister and unregister on a descriptor that is not registered fail
\* with NotFound (ENOENT)
C2_AbsentIsNotFound ==
    (last.op \in {"reregister", "unregister"} /\ ~last.had) =>
        (~last.res.ok /\ last.res.kind = "NotFound")

C2_Witness ==
    /\ last.op = "unregister" /\ ~last.had /\ last.res.kind = "NotFound"
    /\ ~Registered(watch, last.fd)

\* C3: a register, reregister or unregister that returns an error leaves the
\* watch set as it was; one that returns success has applied exactly the
\* change it was asked for
C3_AllOrNothing ==
    [][/\ (last'.op \in {"register", "reregister", "unregister"} /\ ~last'.res.ok) =>
              watch' = watch
       /\ (last'.op = "register" /\ last'.res.ok) =>
              /\ ~Registered(watch, last'.fd)
              /\ \E i \in watch' :
                     Reg(i) = Wanted(last'.fd, last'.asked) /\ watch' = watch \cup {i}
       /\ (last'.op = "reregister" /\ last'.res.ok) =>
              /\ Registered(watch, last'.fd)
              /\ \E i \in watch' :
                     /\ Reg(i) = Wanted(last'.fd, last'.asked)
                     /\ watch' = (watch \ Items(watch, last'.fd)) \cup {i}
       /\ (last'.op = "unregister" /\ last'.res.ok) =>
              /\ Registered(watch, last'.fd)
              /\ watch' = watch \ Items(watch, last'.fd)]_vars

C3_Witness ==
    /\ last.op = "register" /\ ~last.res.ok
    /\ \E i \in watch : i.fd = last.fd /\ i.ready

C5_EmptyOnTimeout ==
    [][\A vec \in Vectors, timeout \in Timeouts, sig \in BOOLEAN :
           (Poll(vec, timeout, sig) /\ timeout.some /\ NoneReady) =>
               (last'.res.ok /\ events' = <<>>)]_vars

\* C6: every poll with a readable descriptor registered Readable and Level
\* returns exactly one event for it, with its token and readiness
\* {readable, not writable, no error}, and leaves the registration armed
C6_LevelRepeats ==
    last.op = "poll" =>
        \A item \in watch :
            (/\ watch = {item}
             /\ item.events = make_flags("Readable", "Level")
             /\ cond[item.fd] = {EPOLLIN}) =>
                /\ last.res.ok
                /\ Len(events) = 1
                /\ token(events[1]) = u64_as_usize(item.data)
                /\ readiness(events[1]) =
                       [readable |-> TRUE, writable |-> FALSE, error |-> FALSE]
                /\ Armed(item) /\ item.ready

Asked(interest) ==
    [readable |-> interest \in {"Readable", "Both"},
     writable |-> interest \in {"Writable", "Both"},
     error |-> FALSE]

\* C10: for every Interest and Mode, the flags that register and reregister
\* compute with make_flags decode with flags_to_readiness to the readable and
\* writable of the Interest and error false, whatever the Mode
C10_FlagsRoundTrip ==
    (last.op \in {"register", "reregister"} /\ last.res.ok) =>
        /\ Registered(watch, last.fd)
        /\ \A item \in Items(watch, last.fd) :
               /\ item.events = make_flags(last.asked.interest, last.asked.mode)
               /\ flags_to_readiness(item.events) = Asked(last.asked.interest)
               /\ \A mode \in Mode :
                      flags_to_readiness(make_flags(last.asked.interest, mode))
                          = flags_to_readiness(item.events)

C10_Witness ==
    /\ last.op = "register" /\ last.res.ok
    /\ last.asked.interest = "Both" /\ last.asked.mode = "OneShot"
    /\ \E item \in Items(watch, last.fd) :
           flags_to_readiness(item.events) =
               [readable |-> TRUE, writable |-> TRUE, error |-> FALSE]

\* C11: the timeout of poll reaches the wait as: None an indefinite wait (-1),
\* a zero Duration an immediate return (0), and every positive Duration a
\* finite, positive bound, never 0 (non-blocking) and never negative
\* (indefinite)
C11_TimeoutKeepsItsMeaning ==
    [][\A vec \in Vectors, timeout \in Timeouts, sig \in BOOLEAN :
           Poll(vec, timeout, sig) =>
               /\ ~timeout.some => timeout_ms(timeout) = -1
               /\ (timeout.some /\ timeout.d = 0) => timeout_ms(timeout) = 0
               /\ (timeout.some /\ timeout.d > 0) => timeout_ms(timeout) > 0]_vars

\* C12: over the life of an instance its epoll_fd is closed exactly once: not
\* at all while the Epoll value is live, once when it has been dropped, never
\* twice, whether or not descriptors were still registered at the drop
C12_ClosedExactlyOnce ==
    /\ epoll.live => epoll.closes = 0
    /\ ~epoll.live => epoll.closes = 1
    /\ last.op = "drop" => (~epoll.live /\ epoll.closes = 1 /\ watch = {})

C12_Witness ==
    /\ last.op = "drop" /\ last.had
    /\ ~epoll.live /\ epoll.closes = 1

\* C14: the error field of the decoded Readiness is true exactly when the
\* descriptor reported an error or a hangup, for every requested Interest
C14_ErrorOrHangup ==
    last.op = "decode" =>
        (last.decoded.readiness.error
            <=> (EPOLLERR \in last.decoded.reported \/ EPOLLHUP \in last.decoded.reported))

\* C14, as the code has it: the error field of the decoded Readiness is true
\* exactly when the descriptor reported an error (EPOLLERR), for every
\* requested Interest; a hangup alone (EPOLLHUP) leaves it false
C14_ErrorIsErrOnly ==
    last.op = "decode" =>
        (last.decoded.readiness.error <=> EPOLLERR \in last.decoded.reported)

C14_Witness ==
    /\ last.op = "decode" /\ last.asked.interest = "Writable"
    /\ last.decoded.reported = {EPOLLERR, EPOLLHUP}
    /\ last.decoded.readiness = [readable |-> FALSE, writable |-> FALSE, error |-> TRUE]

\* the state of a descriptor in the watch set w, as the kernel holds it:
\* Disarmed is an item whose event mask is down to the private bits, Quiescent
\* an edge-triggered item that is off the ready list until a new transition
FdState(w, fd) ==
    IF ~Registered(w, fd) THEN "Unregistered"
    ELSE IF \E i \in Items(w, fd) : ~Armed(i) THEN "Disarmed"
    ELSE IF \E i \in Items(w, fd) : EPOLLET \in i.events /\ ~i.ready THEN "Quiescent"
    ELSE "Armed"

\* C15: a successful unregister moves the descriptor from Armed, Quiescent or
\* Disarmed to Unregistered, and while a descriptor is Unregistered no poll
\* returns an event for it, whatever its readiness: every event of a poll is
\* that of a descriptor registered when the poll was made
C15_UnregisteredIsSilent ==
    [][/\ (last'.op = "unregister" /\ last'.res.ok) =>
              /\ FdState(watch, last'.fd) \in {"Armed", "Quiescent", "Disarmed"}
              /\ FdState(watch', last'.fd) = "Unregistered"
       /\ last'.op = "poll" =>
              /\ \A j \in 1..Len(events') :
                     \E i \in watch : Due(i) /\ events'[j] = EpollEvent(Revents(i, cond), i.data)
              /\ \A fd \in Fds :
                     FdState(watch, fd) = "Unregistered" => FdState(watch', fd) = "Unregistered"
              /\ (\A fd \in Fds : FdState(watch, fd) = "Unregistered") => events' = <<>>]_vars

C15_Witness ==
    /\ last.op = "unregister" /\ last.res.ok /\ last.had
    /\ cond[last.fd] # {}
    /\ FdState(watch, last.fd) = "Unregistered"

\* C16: while a poll on an instance is in progress, register, reregister and
\* unregister can be applied to the same instance from another thread
C16_MutableDuringPoll ==
    epoll.borrowed =>
        /\ ENABLED (\E fd \in Fds, tok \in Tokens, interest \in Interest, mode \in Mode :
                        Register(fd, tok, interest, mode))
        /\ ENABLED (\E fd \in Fds, tok \in Tokens, interest \in Interest, mode \in Mode :
                        Reregister(fd, tok, interest, mode))
        /\ ENABLED (\E fd \in Fds : Unregister(fd))

\* the set {b} when p holds, the empty set otherwise
BitIf(b, p) == IF p THEN {b} ELSE {}

\* C17: make_flags returns exactly these bits: EPOLLIN iff the Interest is
\* Readable or Both, EPOLLOUT iff it is Writable or Both, EPOLLET iff the Mode
\* is Edge, EPOLLONESHOT iff the Mode is OneShot, and no other bit, EPOLLERR
\* included; the interest bits do not depend on the Mode nor the mode bits on
\* the Interest. Stated of the flags that a successful register or reregister
\* installed, and of every pair (Interest, Mode)
C17_ExactBits ==
    /\ (last.op \in {"register", "reregister"} /\ last.res.ok) =>
           \A item \in Items(watch, last.fd) :
               item.events =
                   BitIf(EPOLLIN, last.asked.interest \in {"Readable", "Both"})
                     \cup BitIf(EPOLLOUT, last.asked.interest \in {"Writable", "Both"})
                     \cup BitIf(EPOLLET, last.asked.mode = "Edge")
                     \cup BitIf(EPOLLONESHOT, last.asked.mode = "OneShot")
    /\ \A interest \in Interest, mode \in Mode :
           LET flags == make_flags(interest, mode)
           IN  /\ EPOLLIN \in flags <=> interest \in {"Readable", "Both"}
               /\ EPOLLOUT \in flags <=> interest \in {"Writable", "Both"}
               /\ EPOLLET \in flags <=> mode = "Edge"
               /\ EPOLLONESHOT \in flags <=> mode = "OneShot"
               /\ flags \subseteq {EPOLLIN, EPOLLOUT, EPOLLET, EPOLLONESHOT}
               /\ EPOLLERR \notin flags
               /\ \A m2 \in Mode :
                      make_flags(interest, m2) \cap {EPOLLIN, EPOLLOUT}
                          = flags \cap {EPOLLIN, EPOLLOUT}
               /\ \A i2 \in Interest :
                      make_flags(i2, mode) \cap {EPOLLET, EPOLLONESHOT}
                          = flags \cap {EPOLLET, EPOLLONESHOT}

C17_Witness ==
    /\ last.op = "reregister" /\ last.res.ok
    /\ last.asked.interest = "Writable" /\ last.asked.mode = "Edge"
    /\ \E item \in Items(watch, last.fd) : item.events = {EPOLLOUT, EPOLLET}

\* C19: poll carries no event over from an earlier call: whatever the vector
\* held when it was passed, after a poll that succeeds it holds only what this
\* wait reported, one event per descriptor that was due, and after a poll that
\* returns an error it is empty
C19_NothingCarriedOver ==
    [][last'.op = "poll" =>
           IF last'.res.ok
           THEN /\ \A j \in 1..Len(events') :
                       \E i \in watch :
                           Due(i) /\ events'[j] = EpollEvent(Revents(i, cond), i.data)
                /\ Len(events') <= Cardinality({i \in watch : Due(i)})
           ELSE events' = <<>>]_vars

C19_Witness ==
    /\ last.op = "poll" /\ last.had
    /\ ~last.res.ok
    /\ events = <<>>

TypeOK ==
    /\ \A i \in watch : i.fd \in Fds /\ i.ready \in BOOLEAN
    /\ cond \in [Fds -> SUBSET CondBits]
    /\ Len(events) <= MaxBuf
    /\ epoll.live \in BOOLEAN /\ epoll.borrowed \in BOOLEAN /\ epoll.closes \in 0..1
====
